---- MODULE Spec2Model ----
(***************************************************************************)
(* Model of the NetworkManager connection compiler of nmstate              *)
(* (rust/src/lib/nm/settings/connection.rs) and of the IP part of the      *)
(* revert planner (rust/src/lib/revert/ifaces/base.rs).                    *)
(*                                                                         *)
(* Three specifications share the module:                                  *)
(*   SpecMatch   get_exist_profile applied to bounded inputs               *)
(*   Spec        iface_to_nm_connections, one step per branch; a recursive *)
(*               call is a step that substitutes the interface             *)
(*   SpecRevert  BaseInterface::generate_revert_extra                      *)
(*                                                                         *)
(* Option<T> is a sequence: <<>> is None, <<x>> is Some(x).                *)
(* Result<T, E> is a record [ok |-> BOOLEAN, val |-> T].                   *)
(***************************************************************************)
EXTENDS Integers, Sequences, FiniteSets, TLC

VARIABLES
    \* ---- SpecMatch: one call of get_exist_profile
    m_exist, m_name, m_type, m_ac, m_ret, m_pc,
    \* ---- Spec: one call tree of iface_to_nm_connections
    iface,        \* the interface argument of the call being executed
    iface0,       \* the interface argument of the outermost call
    ctrl_iface,   \* Option<&Interface>
    exist,        \* exist_nm_conns
    ac_uuids,     \* nm_ac_uuids
    veth_peer,    \* veth_peer_exist_in_desire
    cur_state,    \* cur_net_state: Option of the live interface
    pc,           \* "call" | "done"
    depth,        \* number of recursive re-entries made so far
    path,         \* branch that produced the result
    ret,          \* Result<Vec<NmConnection>>
    run,          \* 1 for the first compilation, 2 for the repeated one
    prev_ret,     \* result of the first compilation (Option)
    \* ---- SpecRevert: one call of generate_revert_extra
    r_self, r_self0, r_desired, r_current, r_pc

vars == <<m_exist, m_name, m_type, m_ac, m_ret, m_pc,
          iface, iface0, ctrl_iface, exist, ac_uuids, veth_peer, cur_state,
          pc, depth, path, ret, run, prev_ret,
          r_self, r_self0, r_desired, r_current, r_pc>>

matchVars == <<m_exist, m_name, m_type, m_ac, m_ret, m_pc>>
compVars == <<iface, iface0, ctrl_iface, exist, ac_uuids, veth_peer,
              cur_state, pc, depth, path, ret, run, prev_ret>>
revVars == <<r_self, r_self0, r_desired, r_current, r_pc>>

None == <<>>
Some(x) == <<x>>
IsSome(o) == o /= <<>>
Unwrap(o) == o[1]

Ok(v) == [ok |-> TRUE, val |-> v]
Err == [ok |-> FALSE, val |-> <<>>]

(***************************************************************************)
(* Bounds                                                                  *)
(***************************************************************************)
\* longest existing-profile sequence given to get_exist_profile in SpecMatch
MaxExist == 2
\* longest existing-profile sequence given to iface_to_nm_connections in Spec
MaxExistC == 1

SeqsUpTo(S, n) == UNION {[1..k -> S] : k \in 0..n}

(***************************************************************************)
(* On-wire setting names, connection.rs:30-47                              *)
(***************************************************************************)
NM_SETTING_BRIDGE_SETTING_NAME == "bridge"
NM_SETTING_WIRED_SETTING_NAME == "802-3-ethernet"
NM_SETTING_OVS_BRIDGE_SETTING_NAME == "ovs-bridge"
NM_SETTING_OVS_PORT_SETTING_NAME == "ovs-port"
NM_SETTING_OVS_IFACE_SETTING_NAME == "ovs-interface"
NM_SETTING_VETH_SETTING_NAME == "veth"
NM_SETTING_USER_SPACES ==
    {NM_SETTING_OVS_BRIDGE_SETTING_NAME, NM_SETTING_OVS_PORT_SETTING_NAME}

(***************************************************************************)
(* InterfaceType tags.  "OvsPort" stands for Other("ovs-port"); "Unknown"  *)
(* for a type the mapper does not implement.                               *)
(***************************************************************************)
\* iface_type_to_nm: Result<String>
iface_type_to_nm(t) ==
    CASE t = "LinuxBridge"  -> Ok(NM_SETTING_BRIDGE_SETTING_NAME)
      [] t = "Bond"         -> Ok("bond")
      [] t = "Ethernet"     -> Ok(NM_SETTING_WIRED_SETTING_NAME)
      [] t = "OvsBridge"    -> Ok(NM_SETTING_OVS_BRIDGE_SETTING_NAME)
      [] t = "OvsInterface" -> Ok(NM_SETTING_OVS_IFACE_SETTING_NAME)
      [] t = "Vlan"         -> Ok("vlan")
      [] t = "Vxlan"        -> Ok("vxlan")
      [] t = "Dummy"        -> Ok("dummy")
      [] t = "MacVlan"      -> Ok("macvlan")
      [] t = "MacVtap"      -> Ok("macvlan")
      [] t = "Vrf"          -> Ok("vrf")
      [] t = "Veth"         -> Ok(NM_SETTING_VETH_SETTING_NAME)
      [] t = "InfiniBand"   -> Ok("infiniband")
      [] t = "OvsPort"      -> Ok(NM_SETTING_OVS_PORT_SETTING_NAME)
      [] OTHER              -> Err

(***************************************************************************)
(* NmConnection and its accessors.  A profile is a record                  *)
(*   [connection : Option [id, uuid, iface_type, iface_name, autoconnect,  *)
(*                         autoconnect_ports, controller, controller_type],*)
(*    flags : set, bridge_port, ovs_iface, veth : Option]                  *)
(* The accessors read the identity sub-record and are None without it.     *)
(***************************************************************************)
Profile(c) ==
    [connection |-> c, flags |-> {}, bridge_port |-> None,
     ovs_iface |-> None, veth |-> None]

\* default(): a profile without any setting
DefaultProfile == Profile(None)

conn_iface_name(p) ==
    IF IsSome(p.connection) THEN Unwrap(p.connection).iface_name ELSE None
conn_iface_type(p) ==
    IF IsSome(p.connection) THEN Unwrap(p.connection).iface_type ELSE None
conn_uuid(p) ==
    IF IsSome(p.connection) THEN Unwrap(p.connection).uuid ELSE None
conn_id(p) ==
    IF IsSome(p.connection) THEN Unwrap(p.connection).id ELSE None
conn_controller(p) ==
    IF IsSome(p.connection) THEN Unwrap(p.connection).controller ELSE None
conn_controller_type(p) ==
    IF IsSome(p.connection) THEN Unwrap(p.connection).controller_type
    ELSE None

(***************************************************************************)
(* get_exist_profile, connection.rs:389-418                                *)
(***************************************************************************)
\* mutant: the veth coupling made symmetric
ProfileMatchesSymmetric(p, iface_name, nm_iface_type) ==
    /\ conn_iface_name(p) = Some(iface_name)
    /\ \/ conn_iface_type(p) = Some(nm_iface_type)
       \/ /\ nm_iface_type \in {NM_SETTING_WIRED_SETTING_NAME,
                                NM_SETTING_VETH_SETTING_NAME}
          /\ conn_iface_type(p) \in {Some(NM_SETTING_WIRED_SETTING_NAME),
                                     Some(NM_SETTING_VETH_SETTING_NAME)}

\* the condition of lines 402-406
ProfileMatches(p, iface_name, nm_iface_type) ==
    /\ conn_iface_name(p) = Some(iface_name)
    /\ \/ conn_iface_type(p) = Some(nm_iface_type)
       \/ /\ nm_iface_type = NM_SETTING_WIRED_SETTING_NAME
          /\ conn_iface_type(p) = Some(NM_SETTING_VETH_SETTING_NAME)

\* mutant: the first inactive candidate wins
FoundFirst(found) == IF found = <<>> THEN None ELSE Some(Head(found))

\* found_nm_conns.pop(), line 417
FoundPop(found) == IF found = <<>> THEN None ELSE Some(found[Len(found)])

\* lines 408-413: the profile has a uuid and nm_ac_uuids contains it
IsActivated(p, nm_ac_uuids) ==
    /\ IsSome(conn_uuid(p))
    /\ Unwrap(conn_uuid(p)) \in nm_ac_uuids

\* The for loop of lines 396-416 from index i on; found holds the indices
\* pushed so far.  The value is the index of the returned profile (Option).
RECURSIVE ExistLoop(_, _, _, _, _, _)
ExistLoop(exist_nm_conns, iface_name, iface_type, nm_ac_uuids, i, found) ==
    IF i > Len(exist_nm_conns) THEN FoundPop(found)
    ELSE LET nm == iface_type_to_nm(iface_type) IN
         IF ~nm.ok
         THEN ExistLoop(exist_nm_conns, iface_name, iface_type, nm_ac_uuids,
                        i + 1, found)
         ELSE IF ProfileMatches(exist_nm_conns[i], iface_name, nm.val)
         THEN IF IsActivated(exist_nm_conns[i], nm_ac_uuids)
              THEN Some(i)
              ELSE ExistLoop(exist_nm_conns, iface_name, iface_type,
                             nm_ac_uuids, i + 1, Append(found, i))
         ELSE ExistLoop(exist_nm_conns, iface_name, iface_type, nm_ac_uuids,
                        i + 1, found)

\* Index (Option) of the profile get_exist_profile returns
get_exist_profile(exist_nm_conns, iface_name, iface_type, nm_ac_uuids) ==
    ExistLoop(exist_nm_conns, iface_name, iface_type, nm_ac_uuids, 1, <<>>)

(***************************************************************************)
(* Interface.  A record                                                    *)
(*   [name, kind (the enum variant), iface_type (base.iface_type),         *)
(*    veth : Option peer name (Ethernet variant),                          *)
(*    ports : sequence of port names (OvsBridge variant),                  *)
(*    controller : Option name, controller_type : Option InterfaceType,    *)
(*    up_exist_config, ignore : BOOLEAN]                                   *)
(***************************************************************************)
is_up_exist_config(i) == i.up_exist_config
is_ignore(i) == i.ignore
is_userspace(i) == i.iface_type \in {"OvsBridge", "OvsPort"}
is_controller(i) ==
    i.iface_type \in {"Bond", "LinuxBridge", "OvsBridge", "Vrf"}

\* cur_net_state.get_kernel_iface_with_route(name)
get_kernel_iface_with_route(cur_net_state, name) ==
    IF IsSome(cur_net_state) /\ Unwrap(cur_net_state).name = name
    THEN cur_net_state ELSE None

(***************************************************************************)
(* gen_nm_conn_setting, connection.rs:290-374                              *)
(***************************************************************************)
\* display name, lines 299-312; a name is the pair <<interface name, suffix>>
conn_name(i) ==
    CASE i.iface_type = "OvsBridge"    -> <<i.name, "-br">>
      [] i.iface_type = "OvsPort"      -> <<i.name, "-port">>
      [] i.iface_type = "OvsInterface" -> <<i.name, "-if">>
      [] OTHER                         -> <<i.name, "">>

\* uuid v5 of "{iface_type}://{iface_name}" in NAMESPACE_URL, lines 376-386
uuid_from_name_and_type(iface_name, iface_type) ==
    <<"v5", iface_type, iface_name>>

\* mutant: the identifier is random also in stable mode
new_uuid_random(i, stable_uuid, rnd) == rnd

\* lines 315-320; rnd is the value Uuid::new_v4() draws
new_uuid(i, stable_uuid, rnd) ==
    IF stable_uuid THEN uuid_from_name_and_type(i.name, i.iface_type)
    ELSE rnd

\* lines 298-329: Result of the fresh identity sub-record
new_nm_conn_set(i, stable_uuid, rnd) ==
    LET t == iface_type_to_nm(i.iface_type) IN
    IF ~t.ok THEN Err
    ELSE Ok([id |-> Some(conn_name(i)),
             uuid |-> Some(new_uuid(i, stable_uuid, rnd)),
             iface_type |->
                 IF i.kind = "Ethernet" /\ IsSome(i.veth)
                 THEN Some(NM_SETTING_VETH_SETTING_NAME)
                 ELSE Some(t.val),
             iface_name |-> None, autoconnect |-> None,
             autoconnect_ports |-> None, controller |-> None,
             controller_type |-> None])

\* mutant: a fresh identity sub-record is always built
start_nm_conn_set_fresh(i, nm_conn, stable_uuid, rnd) ==
    new_nm_conn_set(i, stable_uuid, rnd)

\* lines 295-330: clone of the existing identity sub-record, or a fresh one
start_nm_conn_set(i, nm_conn, stable_uuid, rnd) ==
    IF IsSome(nm_conn.connection) THEN Ok(Unwrap(nm_conn.connection))
    ELSE new_nm_conn_set(i, stable_uuid, rnd)

\* mutant: a detach clears the controller name only
controller_linkage_keep_type(nm_conn_set, i, nm_ctrl_type) ==
    IF ~IsSome(i.controller) THEN nm_conn_set
    ELSE IF Unwrap(i.controller) = ""
    THEN [nm_conn_set EXCEPT !.controller = None]
    ELSE IF IsSome(nm_ctrl_type)
    THEN [nm_conn_set EXCEPT
            !.controller = i.controller,
            !.controller_type =
                IF /\ Unwrap(nm_ctrl_type) = "ovs-bridge"
                   /\ i.iface_type /= "OvsPort"
                THEN Some("ovs-port")
                ELSE nm_ctrl_type]
    ELSE nm_conn_set

\* lines 347-363
controller_linkage(nm_conn_set, i, nm_ctrl_type) ==
    IF ~IsSome(i.controller) THEN nm_conn_set
    ELSE IF Unwrap(i.controller) = ""
    THEN [nm_conn_set EXCEPT !.controller = None, !.controller_type = None]
    ELSE IF IsSome(nm_ctrl_type)
    THEN [nm_conn_set EXCEPT
            !.controller = i.controller,
            !.controller_type =
                IF /\ Unwrap(nm_ctrl_type) = "ovs-bridge"
                   /\ i.iface_type /= "OvsPort"
                THEN Some("ovs-port")
                ELSE nm_ctrl_type]
    ELSE nm_conn_set

\* Result<NmConnection>: nm_conn after gen_nm_conn_setting(iface, nm_conn,
\* stable_uuid).  lldp and mptcp (lines 364-369) touch no modelled field.
gen_nm_conn_setting(i, nm_conn, stable_uuid, rnd) ==
    LET start == start_nm_conn_set(i, nm_conn, stable_uuid, rnd) IN
    IF ~start.ok THEN Err
    ELSE
    LET set1 == [start.val EXCEPT
                    !.iface_name = Some(i.name),
                    !.autoconnect = Some(TRUE),
                    !.autoconnect_ports =
                        IF is_controller(i) THEN Some(TRUE) ELSE None]
        ct == IF IsSome(i.controller_type)
              THEN iface_type_to_nm(Unwrap(i.controller_type))
              ELSE Ok("")
    IN
    IF ~ct.ok THEN Err
    ELSE Ok([nm_conn EXCEPT !.connection =
                Some(controller_linkage(set1, i,
                        IF IsSome(i.controller_type) THEN Some(ct.val)
                        ELSE None))])

(***************************************************************************)
(* Companion profile builders (ovs.rs, veth.rs)                            *)
(***************************************************************************)
BaseIface(name, kind, iface_type) ==
    [name |-> name, kind |-> kind, iface_type |-> iface_type,
     veth |-> None, ports |-> <<>>, controller |-> None,
     controller_type |-> None, up_exist_config |-> FALSE, ignore |-> FALSE]

\* create_ovs_port_nm_conn(br_name, port_conf, exist_nm_conn, stable_uuid)
create_ovs_port_nm_conn(br_name, port_name, exist_nm_conn, stable_uuid, rnd) ==
    gen_nm_conn_setting(
        [BaseIface(port_name, "Other", "OvsPort") EXCEPT
            !.controller = Some(br_name),
            !.controller_type = Some("OvsBridge")],
        IF IsSome(exist_nm_conn) THEN Unwrap(exist_nm_conn)
        ELSE DefaultProfile,
        stable_uuid, rnd)

\* create_veth_peer_profile_if_not_found(peer, end, exist_nm_conns, stable)
create_veth_peer_profile_if_not_found(peer_name, end_name, conns, stable, rnd) ==
  LET exist_nm_conns == conns
      stable_uuid == stable
  IN
    LET hits == {k \in 1..Len(exist_nm_conns) :
                    /\ conn_iface_type(exist_nm_conns[k])
                           = Some(NM_SETTING_VETH_SETTING_NAME)
                    /\ conn_iface_name(exist_nm_conns[k]) = Some(peer_name)}
    IN
    IF hits /= {}
    THEN Ok(exist_nm_conns[CHOOSE k \in hits : \A h \in hits : k <= h])
    ELSE LET r == gen_nm_conn_setting(
                    [BaseIface(peer_name, "Ethernet", "Veth") EXCEPT
                        !.veth = Some(end_name)],
                    DefaultProfile,
                    stable_uuid, rnd)
         IN IF ~r.ok THEN Err
            ELSE Ok([r.val EXCEPT !.veth = Some(end_name)])

(***************************************************************************)
(* iface_to_nm_connections, connection.rs:49-253                           *)
(***************************************************************************)
\* mutant: the promotion branches are tried whatever the interface asks
up_exist_guard_always(i) == TRUE

\* line 65
up_exist_guard(i) == is_up_exist_config(i)

\* lines 77-81: the live interface without its veth configuration
strip_veth(cur_iface) ==
    IF cur_iface.kind = "Ethernet"
    THEN [cur_iface EXCEPT !.veth = None, !.iface_type = "Ethernet"]
    ELSE cur_iface

\* the match of lines 59-64 as Option<NmConnection>
exist_nm_conn_of(i, exist_nm_conns, nm_ac_uuids) ==
    LET m == get_exist_profile(exist_nm_conns, i.name, i.iface_type,
                               nm_ac_uuids)
    IN IF IsSome(m) THEN Some(exist_nm_conns[Unwrap(m)]) ELSE None

\* lines 66-91: the externally-managed promotion is taken
takes_external_promotion(i, exist_nm_conns, nm_ac_uuids, cur_net_state) ==
    /\ up_exist_guard(i)
    /\ IsSome(exist_nm_conn_of(i, exist_nm_conns, nm_ac_uuids))
    /\ ~is_userspace(i)
    /\ "External" \in
           Unwrap(exist_nm_conn_of(i, exist_nm_conns, nm_ac_uuids)).flags
    /\ IsSome(get_kernel_iface_with_route(cur_net_state, i.name))

\* line 93: the matched profile is returned as it is
takes_verbatim_return(i, exist_nm_conns, nm_ac_uuids, cur_net_state) ==
    /\ up_exist_guard(i)
    /\ IsSome(exist_nm_conn_of(i, exist_nm_conns, nm_ac_uuids))
    /\ ~takes_external_promotion(i, exist_nm_conns, nm_ac_uuids,
                                 cur_net_state)

\* lines 94-110: the unmanaged promotion is taken
takes_unmanaged_promotion(i, exist_nm_conns, nm_ac_uuids, cur_net_state) ==
    /\ up_exist_guard(i)
    /\ ~IsSome(exist_nm_conn_of(i, exist_nm_conns, nm_ac_uuids))
    /\ ~is_userspace(i)
    /\ IsSome(get_kernel_iface_with_route(cur_net_state, i.name))
    /\ is_ignore(Unwrap(get_kernel_iface_with_route(cur_net_state, i.name)))

\* lines 137-210: the setting groups the family dispatch fills
family_dispatch(i, nm_conn) ==
    CASE i.kind = "OvsInterface" ->
            [nm_conn EXCEPT !.ovs_iface = Some("gen")]
      [] i.kind = "Ethernet" /\ IsSome(i.veth) ->
            [nm_conn EXCEPT !.veth = i.veth]
      [] OTHER -> nm_conn

\* lines 141-154: one switch-port profile per port configuration, from the
\* k-th on; the k-th takes the random identifier rnds[1 + k]
RECURSIVE ovs_port_conns(_, _, _, _, _, _)
ovs_port_conns(i, exist_nm_conns, nm_ac_uuids, stable_uuid, rnds, k) ==
    IF k > Len(i.ports) THEN Ok(<<>>)
    ELSE LET m == get_exist_profile(exist_nm_conns, i.ports[k], "OvsPort",
                                    nm_ac_uuids)
             c == create_ovs_port_nm_conn(
                     i.name, i.ports[k],
                     IF IsSome(m) THEN Some(exist_nm_conns[Unwrap(m)])
                     ELSE None,
                     stable_uuid, rnds[1 + k])
             rest == ovs_port_conns(i, exist_nm_conns, nm_ac_uuids,
                                    stable_uuid, rnds, k + 1)
         IN IF ~c.ok \/ ~rest.ok THEN Err
            ELSE Ok(<<c.val>> \o rest.val)

\* lines 137-210: the companion profiles the family dispatch pushes
dispatch_companions(i, exist_nm_conns, nm_ac_uuids, peer_exist, stable, rnds) ==
  LET veth_peer_exist_in_desire == peer_exist
      stable_uuid == stable
  IN
    CASE i.kind = "OvsBridge" ->
            ovs_port_conns(i, exist_nm_conns, nm_ac_uuids, stable_uuid,
                           rnds, 1)
      [] i.kind = "Ethernet" /\ IsSome(i.veth)
            /\ ~veth_peer_exist_in_desire ->
            LET c == create_veth_peer_profile_if_not_found(
                        Unwrap(i.veth), i.name, exist_nm_conns, stable_uuid,
                        rnds[2])
            IN IF c.ok THEN Ok(<<c.val>>) ELSE Err
      [] OTHER -> Ok(<<>>)

\* lines 212-218
cascade_cleanup(nm_conn) ==
    LET a == IF conn_controller_type(nm_conn)
                 /= Some(NM_SETTING_BRIDGE_SETTING_NAME)
             THEN [nm_conn EXCEPT !.bridge_port = None] ELSE nm_conn
    IN IF conn_controller_type(a) /= Some(NM_SETTING_OVS_PORT_SETTING_NAME)
       THEN [a EXCEPT !.ovs_iface = None] ELSE a

\* gen_nm_br_port_setting(br_iface, nm_conn): the bridge-port group computed
\* from the bridge
gen_nm_br_port_setting(br_iface, nm_conn) ==
    [nm_conn EXCEPT !.bridge_port = Some(br_iface.name)]

\* lines 220-222
bridge_port_from_ctrl(ctrl, nm_conn) ==
    IF IsSome(ctrl) /\ Unwrap(ctrl).kind = "LinuxBridge"
    THEN gen_nm_br_port_setting(Unwrap(ctrl), nm_conn)
    ELSE nm_conn

\* lines 226-228
detach_cleanup(i, nm_conn) ==
    IF i.controller = Some("") THEN [nm_conn EXCEPT !.ovs_iface = None]
    ELSE nm_conn

\* mutant: is_none() of line 235 inverted
implicit_ovs_port_inverted(i, ctrl, stable_uuid, rnd) ==
    IF /\ i.controller_type = Some("OvsBridge")
       /\ ctrl /= None
       /\ IsSome(i.controller)
    THEN LET c == create_ovs_port_nm_conn(Unwrap(i.controller), i.name, None,
                                          stable_uuid, rnd)
         IN IF c.ok THEN Ok(<<c.val>>) ELSE Err
    ELSE Ok(<<>>)

\* lines 233-248
implicit_ovs_port(i, ctrl, stable_uuid, rnd) ==
    IF /\ i.controller_type = Some("OvsBridge")
       /\ ctrl = None
       /\ IsSome(i.controller)
    THEN LET c == create_ovs_port_nm_conn(Unwrap(i.controller), i.name, None,
                                          stable_uuid, rnd)
         IN IF c.ok THEN Ok(<<c.val>>) ELSE Err
    ELSE Ok(<<>>)

\* lines 112-252: Result<Vec<NmConnection>> of the normal path.  The leaf
\* generators of lines 122-135 fill setting groups that are not modelled.
normal_path(i, ctrl, exist_nm_conns, nm_ac_uuids, peer_exist, rnds) ==
  LET veth_peer_exist_in_desire == peer_exist IN
    LET e == exist_nm_conn_of(i, exist_nm_conns, nm_ac_uuids)
        start == [(IF IsSome(e) THEN Unwrap(e) ELSE DefaultProfile)
                     EXCEPT !.flags = {}]
        stable_uuid == exist_nm_conns = <<>>
        g == gen_nm_conn_setting(i, start, stable_uuid, rnds[1])
    IN
    IF ~g.ok THEN Err
    ELSE
    LET comp == dispatch_companions(i, exist_nm_conns, nm_ac_uuids,
                                    veth_peer_exist_in_desire, stable_uuid,
                                    rnds)
    IN
    IF ~comp.ok THEN Err
    ELSE
    LET nm_conn == detach_cleanup(i,
                     bridge_port_from_ctrl(ctrl,
                       cascade_cleanup(family_dispatch(i, g.val))))
        port == implicit_ovs_port(i, ctrl, stable_uuid, rnds[Len(rnds)])
    IN
    IF ~port.ok THEN Err
    ELSE Ok(<<nm_conn>> \o comp.val \o port.val)

(***************************************************************************)
(* SpecMatch                                                               *)
(***************************************************************************)
Uuids == {<<"old", "1">>, <<"old", "2">>}

MatchConn(n, t, u) ==
    [id |-> Some(<<"old", "">>), uuid |-> u, iface_type |-> Some(t),
     iface_name |-> Some(n), autoconnect |-> Some(TRUE),
     autoconnect_ports |-> None, controller |-> None,
     controller_type |-> None]

MatchProfiles ==
    {Profile(Some(MatchConn(n, t, u))) :
        n \in {"eth1", "eth2"},
        t \in {NM_SETTING_WIRED_SETTING_NAME, NM_SETTING_VETH_SETTING_NAME,
               NM_SETTING_BRIDGE_SETTING_NAME},
        u \in {None} \cup {Some(x) : x \in Uuids}}
    \cup {DefaultProfile}

MatchTypes == {"Ethernet", "Veth", "LinuxBridge", "Unknown"}

IdleComp ==
    /\ iface = None /\ iface0 = None /\ ctrl_iface = None /\ exist = <<>>
    /\ ac_uuids = {} /\ veth_peer = FALSE /\ cur_state = None
    /\ pc = "off" /\ depth = 0 /\ path = "none" /\ ret = None
    /\ run = 0 /\ prev_ret = None

IdleMatch ==
    /\ m_exist = <<>> /\ m_name = "" /\ m_type = "" /\ m_ac = {}
    /\ m_ret = None /\ m_pc = "off"

IdleRevert ==
    /\ r_self = None /\ r_self0 = None /\ r_desired = None
    /\ r_current = None /\ r_pc = "off"

InitMatch ==
    /\ m_exist \in SeqsUpTo(MatchProfiles, MaxExist)
    /\ m_name = "eth1"
    /\ m_type \in MatchTypes
    /\ m_ac \in SUBSET Uuids
    /\ m_ret = None
    /\ m_pc = "call"
    /\ IdleComp /\ IdleRevert

Match ==
    /\ m_pc = "call"
    /\ m_ret' = get_exist_profile(m_exist, m_name, m_type, m_ac)
    /\ m_pc' = "done"
    /\ UNCHANGED <<m_exist, m_name, m_type, m_ac>>
    /\ UNCHANGED compVars /\ UNCHANGED revVars

NextMatch == Match

SpecMatch == InitMatch /\ [][NextMatch]_vars

(***************************************************************************)
(* Spec: iface_to_nm_connections on bounded inputs                         *)
(***************************************************************************)
\* deepest recursion the model follows
MaxDepth == 3

\* values Uuid::new_v4() may draw
RandomUuids == {<<"v4", "a">>, <<"v4", "b">>}

IfaceShapes ==
    {BaseIface("eth1", "Ethernet", "Ethernet"),
     [BaseIface("eth1", "Ethernet", "Ethernet") EXCEPT !.veth = Some("eth2")],
     [BaseIface("eth1", "Ethernet", "Veth") EXCEPT !.veth = Some("eth2")],
     [BaseIface("eth1", "OvsBridge", "OvsBridge") EXCEPT
         !.ports = <<"eth2">>],
     BaseIface("eth1", "OvsInterface", "OvsInterface"),
     BaseIface("eth1", "Other", "OvsPort"),
     BaseIface("eth1", "Unknown", "Unknown")}

\* <<controller, controller_type>> of the desired interface
ControllerChoices ==
    {<<None, None>>, <<Some(""), None>>, <<Some(""), Some("OvsBridge")>>,
     <<Some("br0"), Some("LinuxBridge")>>, <<Some("br0"), Some("OvsBridge")>>,
     <<None, Some("OvsBridge")>>, <<Some("br0"), Some("Unknown")>>}

DesiredIfaces ==
    {[sh EXCEPT !.controller = c[1], !.controller_type = c[2],
                !.up_exist_config = u] :
        sh \in IfaceShapes, c \in ControllerChoices, u \in BOOLEAN}

CtrlIfaces ==
    {None, Some(BaseIface("br0", "LinuxBridge", "LinuxBridge")),
     Some(BaseIface("br0", "OvsBridge", "OvsBridge"))}

\* Interfaces of the live state: full kernel interfaces, never a
\* "name, type and state: up only" request
LiveIfaces ==
    {None,
     Some([BaseIface("eth1", "Ethernet", "Ethernet") EXCEPT
             !.ignore = TRUE]),
     Some([BaseIface("eth1", "Ethernet", "Veth") EXCEPT
             !.veth = Some("eth2")])}

ExistConn(t, u, c, ct) ==
    [id |-> Some(<<"old", "">>), uuid |-> Some(u), iface_type |-> Some(t),
     iface_name |-> Some("eth1"), autoconnect |-> Some(TRUE),
     autoconnect_ports |-> None, controller |-> c, controller_type |-> ct]

\* Profiles NetworkManager may hold for eth1
ExistProfiles ==
    {[Profile(Some(ExistConn(NM_SETTING_WIRED_SETTING_NAME, <<"old", "1">>,
                             Some("br0"), Some("ovs-port"))))
         EXCEPT !.ovs_iface = Some("old"), !.bridge_port = Some("old")],
     [Profile(Some(ExistConn(NM_SETTING_WIRED_SETTING_NAME, <<"old", "2">>,
                             None, None)))
         EXCEPT !.flags = {"External"}],
     [Profile(Some(ExistConn(NM_SETTING_VETH_SETTING_NAME, <<"old", "2">>,
                             Some("br0"), Some("bridge"))))
         EXCEPT !.bridge_port = Some("old"), !.veth = Some("eth2")],
     [Profile(Some(ExistConn(NM_SETTING_OVS_IFACE_SETTING_NAME,
                             <<"old", "1">>, Some("br0"), Some("ovs-port"))))
         EXCEPT !.ovs_iface = Some("old")],
     [Profile(Some(ExistConn(NM_SETTING_OVS_BRIDGE_SETTING_NAME,
                             <<"old", "2">>, None, None)))
         EXCEPT !.flags = {"External"}]}

Init ==
    /\ iface0 \in DesiredIfaces
    /\ iface = iface0
    /\ ctrl_iface \in CtrlIfaces
    /\ exist \in SeqsUpTo(ExistProfiles, MaxExistC)
    /\ ac_uuids = {<<"old", "2">>}
    /\ veth_peer \in BOOLEAN
    /\ cur_state \in LiveIfaces
    /\ pc = "call" /\ depth = 0 /\ path = "none" /\ ret = None
    /\ run = 1 /\ prev_ret = None
    /\ IdleMatch /\ IdleRevert

\* lines 83-90: the call re-enters with the stripped live interface
PromoteExternal ==
    /\ pc = "call" /\ depth < MaxDepth
    /\ takes_external_promotion(iface, exist, ac_uuids, cur_state)
    /\ iface' = strip_veth(
                    Unwrap(get_kernel_iface_with_route(cur_state, iface.name)))
    /\ depth' = depth + 1
    /\ UNCHANGED <<iface0, ctrl_iface, exist, ac_uuids, veth_peer, cur_state,
                   pc, path, ret, run, prev_ret>>
    /\ UNCHANGED matchVars /\ UNCHANGED revVars

\* line 93
ReturnVerbatim ==
    /\ pc = "call"
    /\ takes_verbatim_return(iface, exist, ac_uuids, cur_state)
    /\ ret' = Ok(<<Unwrap(exist_nm_conn_of(iface, exist, ac_uuids))>>)
    /\ path' = "verbatim"
    /\ pc' = "done"
    /\ UNCHANGED <<iface, iface0, ctrl_iface, exist, ac_uuids, veth_peer,
                   cur_state, depth, run, prev_ret>>
    /\ UNCHANGED matchVars /\ UNCHANGED revVars

\* lines 100-107: the call re-enters with the live interface
PromoteUnmanaged ==
    /\ pc = "call" /\ depth < MaxDepth
    /\ takes_unmanaged_promotion(iface, exist, ac_uuids, cur_state)
    /\ iface' = Unwrap(get_kernel_iface_with_route(cur_state, iface.name))
    /\ depth' = depth + 1
    /\ UNCHANGED <<iface0, ctrl_iface, exist, ac_uuids, veth_peer, cur_state,
                   pc, path, ret, run, prev_ret>>
    /\ UNCHANGED matchVars /\ UNCHANGED revVars

takes_normal_path(i, exist_nm_conns, nm_ac_uuids, cur_net_state) ==
    /\ ~takes_external_promotion(i, exist_nm_conns, nm_ac_uuids,
                                 cur_net_state)
    /\ ~takes_verbatim_return(i, exist_nm_conns, nm_ac_uuids, cur_net_state)
    /\ ~takes_unmanaged_promotion(i, exist_nm_conns, nm_ac_uuids,
                                  cur_net_state)

\* lines 112-252, ending in Ok(ret)
CompileOk ==
    /\ pc = "call"
    /\ takes_normal_path(iface, exist, ac_uuids, cur_state)
    /\ \E rnds \in [1..3 -> RandomUuids] :
          LET r == normal_path(iface, ctrl_iface, exist, ac_uuids, veth_peer,
                               rnds)
          IN r.ok /\ ret' = r
    /\ path' = "normal"
    /\ pc' = "done"
    /\ UNCHANGED <<iface, iface0, ctrl_iface, exist, ac_uuids, veth_peer,
                   cur_state, depth, run, prev_ret>>
    /\ UNCHANGED matchVars /\ UNCHANGED revVars

\* lines 112-252, left by a `?`
CompileErr ==
    /\ pc = "call"
    /\ takes_normal_path(iface, exist, ac_uuids, cur_state)
    \* whether a `?` fires does not depend on the identifiers drawn
    /\ ~normal_path(iface, ctrl_iface, exist, ac_uuids, veth_peer,
                    [k \in 1..3 |-> <<"v4", "a">>]).ok
    /\ ret' = Err
    /\ path' = "normal"
    /\ pc' = "done"
    /\ UNCHANGED <<iface, iface0, ctrl_iface, exist, ac_uuids, veth_peer,
                   cur_state, depth, run, prev_ret>>
    /\ UNCHANGED matchVars /\ UNCHANGED revVars

\* The caller generates the configuration of the same desired interface once
\* more from a clean slate (no existing profile, no live state)
CompileAgain ==
    /\ pc = "done" /\ run = 1
    /\ exist = <<>> /\ cur_state = None
    /\ prev_ret' = Some(ret)
    /\ run' = 2
    /\ iface' = iface0
    /\ pc' = "call" /\ depth' = 0 /\ path' = "none" /\ ret' = None
    /\ UNCHANGED <<iface0, ctrl_iface, exist, ac_uuids, veth_peer, cur_state>>
    /\ UNCHANGED matchVars /\ UNCHANGED revVars

Next ==
    \/ PromoteExternal
    \/ ReturnVerbatim
    \/ PromoteUnmanaged
    \/ CompileOk
    \/ CompileErr
    \/ CompileAgain

Spec == Init /\ [][Next]_vars

(***************************************************************************)
(* BaseInterface::generate_revert_extra, revert/ifaces/base.rs:6-32        *)
(* A base interface is [can_ip : BOOLEAN, ipv4, ipv6 : Option of           *)
(* [auto : BOOLEAN, addr : address text]].                                 *)
(***************************************************************************)
can_have_ip(b) == b.can_ip
is_auto(ip) == ip.auto

\* InterfaceIpv4/InterfaceIpv6::sanitize(false): Result of the normalised
\* configuration; an address that cannot be parsed is an error
sanitize(ip) ==
    CASE ip.addr = "bad" -> Err
      [] ip.addr = "10.0.0.01/24" -> Ok([ip EXCEPT !.addr = "10.0.0.1/24"])
      [] OTHER -> Ok(ip)

\* lines 30-31: sanitize in place, the error dropped by ok()
sanitize_best_effort(o) ==
    IF IsSome(o) /\ sanitize(Unwrap(o)).ok THEN Some(sanitize(Unwrap(o)).val)
    ELSE o

\* mutant: only ipv4 is restored
restore_all_ipv4_only(self, desired, current) ==
    IF ~can_have_ip(desired) /\ can_have_ip(self)
    THEN [self EXCEPT !.ipv4 = current.ipv4]
    ELSE self

\* lines 11-14
restore_all(self, desired, current) ==
    IF ~can_have_ip(desired) /\ can_have_ip(self)
    THEN [self EXCEPT !.ipv4 = current.ipv4, !.ipv6 = current.ipv6]
    ELSE self

\* the condition of lines 19-20 and 25-26 for one family
static_to_auto(desired_ip, current_ip) ==
    /\ IsSome(desired_ip) /\ is_auto(Unwrap(desired_ip))
    /\ IsSome(current_ip) /\ ~is_auto(Unwrap(current_ip))

\* self after generate_revert_extra(desired, current)
generate_revert_extra(self, desired, current) ==
    LET s1 == restore_all(self, desired, current)
        s2 == IF static_to_auto(desired.ipv4, current.ipv4)
              THEN [s1 EXCEPT !.ipv4 = current.ipv4] ELSE s1
        s3 == IF static_to_auto(desired.ipv6, current.ipv6)
              THEN [s2 EXCEPT !.ipv6 = current.ipv6] ELSE s2
    IN [s3 EXCEPT !.ipv4 = sanitize_best_effort(s3.ipv4),
                  !.ipv6 = sanitize_best_effort(s3.ipv6)]

IpConfs ==
    {None,
     Some([auto |-> TRUE, addr |-> ""]),
     Some([auto |-> FALSE, addr |-> "10.0.0.1/24"]),
     Some([auto |-> FALSE, addr |-> "10.0.0.01/24"]),
     Some([auto |-> FALSE, addr |-> "bad"])}

BaseInterfaces == [can_ip : BOOLEAN, ipv4 : IpConfs, ipv6 : IpConfs]

InitRevert ==
    /\ r_self0 \in BaseInterfaces
    /\ r_self = r_self0
    /\ r_desired \in BaseInterfaces
    \* can_have_ip() of current is never read
    /\ r_current \in {b \in BaseInterfaces : b.can_ip}
    /\ r_pc = "call"
    /\ IdleMatch /\ IdleComp

Revert ==
    /\ r_pc = "call"
    /\ r_self' = generate_revert_extra(r_self, r_desired, r_current)
    /\ r_pc' = "done"
    /\ UNCHANGED <<r_self0, r_desired, r_current>>
    /\ UNCHANGED matchVars /\ UNCHANGED compVars

NextRevert == Revert

SpecRevert == InitRevert /\ [][NextRevert]_vars

(***************************************************************************)
(* Claims about generate_revert_extra (SpecRevert)                         *)
(***************************************************************************)
\* the family is taken from current
FromCurrent(desired_ip, current_ip) ==
    \/ ~r_desired.can_ip /\ r_self0.can_ip
    \/ /\ IsSome(desired_ip) /\ Unwrap(desired_ip).auto
       /\ IsSome(current_ip) /\ ~Unwrap(current_ip).auto

\* C8: each family of self ends as the sanitized family of current when
\* desired cannot carry IP while self can, or when desired turns a static
\* current family automatic; otherwise as the sanitized family self had.
C8_RevertResult ==
    r_pc = "done" =>
        /\ r_self.ipv4 = sanitize_best_effort(
              IF FromCurrent(r_desired.ipv4, r_current.ipv4)
              THEN r_current.ipv4 ELSE r_self0.ipv4)
        /\ r_self.ipv6 = sanitize_best_effort(
              IF FromCurrent(r_desired.ipv6, r_current.ipv6)
              THEN r_current.ipv6 ELSE r_self0.ipv6)
        /\ r_self.can_ip = r_self0.can_ip

\* desired cannot carry IP and both families of current, one of them
\* normalised by sanitize, replaced other values of self
C8_Witness ==
    /\ r_pc = "done"
    /\ ~r_desired.can_ip /\ r_self0.can_ip
    /\ r_current.ipv4 = Some([auto |-> FALSE, addr |-> "10.0.0.01/24"])
    /\ r_current.ipv6 = Some([auto |-> FALSE, addr |-> "bad"])
    /\ r_self0.ipv4 = Some([auto |-> TRUE, addr |-> ""])
    /\ r_self0.ipv6 = None
    /\ r_self.ipv4 = Some([auto |-> FALSE, addr |-> "10.0.0.1/24"])
    /\ r_self.ipv6 = r_current.ipv6

(***************************************************************************)
(* Claims about iface_to_nm_connections (Spec)                             *)
(***************************************************************************)
NormalDone == pc = "done" /\ path = "normal" /\ ret.ok
Primary == ret.val[1]
\* the profile the matcher returns for the interface of the executing call
Matched == exist_nm_conn_of(iface, exist, ac_uuids)

\* C2: on the normal path a matched existing profile keeps its uuid and its
\* display name in the primary profile.
C2_IdentityReuse ==
    (NormalDone /\ IsSome(Matched)) =>
        /\ conn_uuid(Primary) = conn_uuid(Unwrap(Matched))
        /\ conn_id(Primary) = conn_id(Unwrap(Matched))
        /\ \A r \in RandomUuids : conn_uuid(Primary) /= Some(r)

\* a matched profile went through the normal path with other profiles known
C2_Witness ==
    /\ NormalDone /\ IsSome(Matched)
    /\ exist /= <<>>
    /\ conn_uuid(Primary) = Some(<<"old", "1">>)

\* C3: with no existing profile and no live state the second compilation of
\* an interface returns what the first returned, and no random identifier.
C3_Determinism ==
    (pc = "done" /\ run = 2 /\ exist = <<>> /\ cur_state = None) =>
        /\ ret = Unwrap(prev_ret)
        /\ ret.ok =>
              \A k \in 1..Len(ret.val) : \A r \in RandomUuids :
                  conn_uuid(ret.val[k]) /= Some(r)

\* the second compilation returned a primary profile and a companion
C3_Witness ==
    /\ pc = "done" /\ run = 2 /\ exist = <<>> /\ cur_state = None
    /\ ret.ok /\ Len(ret.val) >= 2
    /\ conn_uuid(Primary) = Some(<<"v5", iface.iface_type, iface.name>>)

\* C4 as claimed: in the primary profile of the normal path the bridge-port
\* group is present only with controller type "bridge" and the ovs-interface
\* group only with controller type "ovs-port".
C4_ControllerGroups ==
    NormalDone =>
        /\ IsSome(Primary.bridge_port) =>
              conn_controller_type(Primary)
                  = Some(NM_SETTING_BRIDGE_SETTING_NAME)
        /\ IsSome(Primary.ovs_iface) =>
              conn_controller_type(Primary)
                  = Some(NM_SETTING_OVS_PORT_SETTING_NAME)

\* C5: a controller name of "" leaves the primary profile without controller
\* name, controller type and ovs-interface group.
C5_Detach ==
    (NormalDone /\ iface.controller = Some("")) =>
        /\ conn_controller(Primary) = None
        /\ conn_controller_type(Primary) = None
        /\ Primary.ovs_iface = None

\* the matched profile was attached and carried an ovs-interface group
C5_Witness ==
    /\ NormalDone /\ iface.controller = Some("")
    /\ IsSome(Matched)
    /\ IsSome(conn_controller(Unwrap(Matched)))
    /\ IsSome(conn_controller_type(Unwrap(Matched)))
    /\ IsSome(Unwrap(Matched).ovs_iface)

\* p is the switch-port profile synthesized for interface i
IsImplicitPort(p, i) ==
    /\ conn_iface_name(p) = Some(i.name)
    /\ conn_iface_type(p) = Some(NM_SETTING_OVS_PORT_SETTING_NAME)
    /\ conn_id(p) = Some(<<i.name, "-port">>)

DeclaresOvsBridgeByName(i) ==
    /\ i.controller_type = Some("OvsBridge")
    /\ IsSome(i.controller)
    /\ ctrl_iface = None

\* C6 as claimed: every successful call for such an interface returns exactly
\* two profiles, the second being the synthesized switch port.
C6_ExactlyTwo ==
    (pc = "done" /\ ret.ok /\ DeclaresOvsBridgeByName(iface0)) =>
        /\ Len(ret.val) = 2
        /\ IsImplicitPort(ret.val[2], iface0)
        /\ iface0.controller /= Some("") =>
              conn_controller(ret.val[2]) = iface0.controller

\* companions the family dispatch adds for interface i
DispatchCompanions(i) ==
    IF i.kind = "OvsBridge" THEN Len(i.ports)
    ELSE IF i.kind = "Ethernet" /\ IsSome(i.veth) /\ ~veth_peer THEN 1
    ELSE 0

\* C6 amended: on the normal path the primary profile is first, the
\* synthesized switch port is last and only the companions of the family
\* dispatch lie between them; the port is bound to a non-empty controller
\* name.
C6_PrimaryFirstPortLast ==
    (NormalDone /\ DeclaresOvsBridgeByName(iface)) =>
        /\ Len(ret.val) = 2 + DispatchCompanions(iface)
        /\ conn_iface_name(Primary) = Some(iface.name)
        /\ IsImplicitPort(ret.val[Len(ret.val)], iface)
        /\ iface.controller /= Some("") =>
              /\ conn_controller(ret.val[Len(ret.val)]) = iface.controller
              /\ conn_controller_type(ret.val[Len(ret.val)])
                    = Some(NM_SETTING_OVS_BRIDGE_SETTING_NAME)

\* primary, veth peer and switch port: three profiles
C6_Witness ==
    /\ NormalDone /\ DeclaresOvsBridgeByName(iface)
    /\ Len(ret.val) = 3
    /\ iface.kind = "Ethernet"
    /\ conn_controller(ret.val[3]) = Some("br0")

C10_VethOnWire ==
    (NormalDone /\ iface.kind = "Ethernet" /\ IsSome(iface.veth)) =>
        conn_iface_type(Primary) = Some(NM_SETTING_VETH_SETTING_NAME)

(***************************************************************************)
(* Claims about get_exist_profile (SpecMatch)                              *)
(***************************************************************************)
\* The on-wire types a request for interface type t accepts
MatchingClass(t) ==
    IF ~iface_type_to_nm(t).ok THEN {}
    ELSE IF iface_type_to_nm(t).val = NM_SETTING_WIRED_SETTING_NAME
         THEN {NM_SETTING_WIRED_SETTING_NAME, NM_SETTING_VETH_SETTING_NAME}
         ELSE {iface_type_to_nm(t).val}

Candidates ==
    {i \in 1..Len(m_exist) :
        /\ conn_iface_name(m_exist[i]) = Some(m_name)
        /\ \E w \in MatchingClass(m_type) :
              conn_iface_type(m_exist[i]) = Some(w)}

ActiveCandidates ==
    {i \in Candidates :
        \E u \in m_ac : conn_uuid(m_exist[i]) = Some(u)}

SetMin(S) == CHOOSE x \in S : \A y \in S : x <= y
SetMax(S) == CHOOSE x \in S : \A y \in S : x >= y

\* C1: the matcher returns the first active candidate if any candidate is
\* active, otherwise the last candidate in input order, otherwise none.
C1_SelectionRule ==
    m_pc = "done" =>
        m_ret = IF ActiveCandidates /= {} THEN Some(SetMin(ActiveCandidates))
                ELSE IF Candidates /= {} THEN Some(SetMax(Candidates))
                ELSE None

\* an active candidate is returned although an inactive one precedes it and
\* another inactive one is possible after it
C1_Witness ==
    /\ m_pc = "done"
    /\ \E i, j \in Candidates :
          /\ i < j
          /\ i \notin ActiveCandidates
          /\ j \in ActiveCandidates
          /\ m_ret = Some(j)

\* the last of two inactive candidates is returned
C1_WitnessFallback ==
    /\ m_pc = "done"
    /\ ActiveCandidates = {}
    /\ Cardinality(Candidates) >= 2
    /\ m_ret = Some(SetMax(Candidates))

NamedWithType(w) ==
    {i \in 1..Len(m_exist) :
        /\ conn_iface_name(m_exist[i]) = Some(m_name)
        /\ conn_iface_type(m_exist[i]) = Some(w)}

\* C7: a veth profile is matched by a request for Ethernet, an
\* 802-3-ethernet profile is never matched by a request for Veth.
C7_AsymmetricCoupling ==
    m_pc = "done" =>
        /\ (/\ m_type = "Ethernet"
            /\ NamedWithType(NM_SETTING_VETH_SETTING_NAME) /= {}
            /\ NamedWithType(NM_SETTING_WIRED_SETTING_NAME) = {})
           => /\ IsSome(m_ret)
              /\ Unwrap(m_ret) \in NamedWithType(NM_SETTING_VETH_SETTING_NAME)
        /\ m_type = "Veth"
           => /\ IsSome(m_ret) =>
                    Unwrap(m_ret) \notin
                        NamedWithType(NM_SETTING_WIRED_SETTING_NAME)
              /\ NamedWithType(NM_SETTING_VETH_SETTING_NAME) = {}
                    => m_ret = None

\* Veth is requested, an 802-3-ethernet profile of that name exists and
\* nothing is matched
C7_Witness ==
    /\ m_pc = "done"
    /\ m_type = "Veth"
    /\ NamedWithType(NM_SETTING_WIRED_SETTING_NAME) /= {}
    /\ m_ret = None

\* Ethernet is requested and a veth profile is the one returned
C7_WitnessVethMatched ==
    /\ m_pc = "done"
    /\ m_type = "Ethernet"
    /\ IsSome(m_ret)
    /\ Unwrap(m_ret) \in NamedWithType(NM_SETTING_VETH_SETTING_NAME)

====
